---- MODULE Spec2Model ----
(***************************************************************************)
(* Model of simple_agent.main.run_agent: the bounded tool-call loop, the   *)
(* optional reflection round, the printing of the final answer and the     *)
(* sandboxed execution of a delimited code block.                          *)
(*                                                                         *)
(* Texts are sequences of tokens.  The token "O" stands for the opening    *)
(* delimiter "<execute_python>", the token "C" for the closing delimiter   *)
(* "</execute_python>"; every other token is an ordinary piece of text.    *)
(* The two delimiters share no overlap (neither contains the other, and no *)
(* proper suffix of one is a prefix of the other), so str.split and the    *)
(* "in" test on the characters agree with the same operations on tokens.   *)
(***************************************************************************)
EXTENDS Integers, Sequences, FiniteSets, TLC

\* ---------------------------------------------------------------- bounds
MaxCallbacks == 1
MaxToolCalls == 2

\* ------------------------------------------------------- static tool set
TOOLS ==
  << [type |-> "function",
      function |-> [name |-> "make_random_name",
                    description |-> "Generate a random name",
                    parameters |-> {}]] >>

\* names a provider may put in a tool call: the registered one and another
FunctionNames == {"make_random_name", "delete_files"}

\* the values Faker().name() may return
FakerNames == {<<"Jordan Lee">>}

\* make_random_name() takes no parameters
make_random_name_params == {}

\* ---------------------------------------------------------------- texts
OPEN == "O"
CLOSE == "C"

RECURSIVE SeqsUpTo(_, _)
SeqsUpTo(S, n) ==
  IF n = 0 THEN {<<>>}
  ELSE LET shorter == SeqsUpTo(S, n - 1)
       IN shorter \cup {Append(s, x) : s \in {t \in shorter : Len(t) = n - 1}, x \in S}

\* message.content is a str or None
NoneContent == [none |-> TRUE, text |-> <<>>]
Text(t) == [none |-> FALSE, text |-> t]

\* str(x) as used by print() and by the f-string of the reflection prompt
Str(c) == IF c.none THEN <<"N", "o", "n", "e">> ELSE c.text

\* sep in text
Contains(text, sep) == \E i \in 1..Len(text) : text[i] = sep

\* index of the first occurrence of sep in text, 0 when there is none
FirstIndex(text, sep) ==
  IF Contains(text, sep)
  THEN CHOOSE i \in 1..Len(text) :
         text[i] = sep /\ \A j \in 1..(i - 1) : text[j] # sep
  ELSE 0

\* text.split(sep, maxsplit=1): one part when sep is absent, else two
Split1(text, sep) ==
  LET i == FirstIndex(text, sep)
  IN IF i = 0 THEN << text >>
     ELSE << SubSeq(text, 1, i - 1), SubSeq(text, i + 1, Len(text)) >>

\* contiguous occurrence of part inside whole
IsSubstring(part, whole) ==
  \E i \in 0..(Len(whole) - Len(part)) :
     SubSeq(whole, i + 1, i + Len(part)) = part

\* ----------------------------------------------------- tool-call arguments
\* function.arguments strings a provider may send
ArgStrings == {"{}", "{\"x\": 1}", "{oops"}

\* a lenient parser: every argument string yields an empty object
json_loads_lenient(s) == [ok |-> TRUE, keys |-> {}]

\* json.loads: ok = FALSE is json.JSONDecodeError; keys = the object's members
json_loads(s) ==
  CASE s = "{}" -> [ok |-> TRUE, keys |-> {}]
    [] s = "{\"x\": 1}" -> [ok |-> TRUE, keys |-> {"x"}]
    [] OTHER -> [ok |-> FALSE, keys |-> {}]

\* a call that rejects every keyword set
AcceptsKwargs_never(function_name, keys) == FALSE

\* what globals()[function_name](**function_args) accepts: the keyword names
\* must be exactly the parameters of the function, else Python raises TypeError
AcceptsKwargs(function_name, keys) ==
  function_name = "make_random_name" /\ keys = make_random_name_params

\* ----------------------------------------------------------------- state
VARIABLES
  model_supported,   \* litellm.supports_function_calling(model=model)
  max_callbacks,     \* --max-callbacks
  reflect,           \* --reflect
  execute_code,      \* --execute-code
  pc,                \* position in run_agent
  messages,          \* the conversation history
  response,          \* response.choices[0].message of the latest completion
  callbacks,         \* the round counter
  idx,               \* position of the for loop over message.tool_calls
  message_content,   \* line 149
  code,              \* line 158
  printed,           \* what print() wrote, one element per call
  container_runs,    \* the requests given to client.containers.run
  err,               \* the exception that ended the run
  completions,       \* the litellm.completion calls issued, in order
  invoked,           \* the tool implementations invoked, in order
  rounds,            \* loop bodies entered
  sandbox_attempts,  \* times the branch of line 158 was entered
  tools,             \* the module-level TOOLS list as it is now
  loop_exit          \* what the loop left behind when its test failed

vars == << model_supported, max_callbacks, reflect, execute_code, pc, messages,
           response, callbacks, idx, message_content, code, printed,
           container_runs, err, completions, invoked, rounds, sandbox_attempts,
           tools, loop_exit >>

config == << model_supported, max_callbacks, reflect, execute_code >>

tool_state == << tools >>

\* ------------------------------------------------------------- messages
NoId == << >>

Message(role, content, tool_calls, tool_call_id, name) ==
  [role |-> role, content |-> content, tool_calls |-> tool_calls,
   tool_call_id |-> tool_call_id, name |-> name]

UserMessage(text) == Message("user", Text(text), << >>, NoId, "")

SeedMessages ==
  << UserMessage(<<"Please include your name if asked.">>),
     UserMessage(<<"If I request code, please return it as python">>),
     UserMessage(<<"prompt">>) >>

\* a prompt that does not interpolate the previous answer
reflect_prompt_fixed(content) ==
  <<"Please reflect on your last output. If you can improve it, please do so.">>

\* the f-string of lines 137-141
reflect_prompt(content) ==
  <<"Please reflect on your last output, which was '">>
    \o Str(content)
    \o <<"'. If you can improve it, please do so and provide a new response.">>

NoError == [type |-> "none", msg |-> "", name |-> ""]
Raise(type, msg, name) == [type |-> type, msg |-> msg, name |-> name]

NoResponse == Message("assistant", NoneContent, << >>, NoId, "")
NoLoopExit ==
  [completions |-> 0, content |-> NoneContent, requesting |-> FALSE,
   reached |-> FALSE]

\* ------------------------------------------------- what a provider returns
\* contents of the answers in the full run
AnswerTexts ==
  { <<"a">>,
    <<"pre", OPEN, "print(1)", CLOSE, "post", OPEN, "ignored", CLOSE>>,
    <<CLOSE, "a", OPEN, "b">>,
    <<OPEN, "b">>,
    <<"a", CLOSE>> }
AnswerContents == {NoneContent} \cup {Text(t) : t \in AnswerTexts}
\* content of the responses that request tools: none, or (with one call) a text
RequestContents == {NoneContent}
RequestTexts == {Text(<<"a">>)}

\* one tool call as the provider chooses it (the id is added on receipt)
CallChoices ==
  { [name |-> "make_random_name", arguments |-> a] : a \in ArgStrings }
    \cup { [name |-> "delete_files", arguments |-> "{}"] }

\* a call that run_agent resolves without raising
GoodCall(choice) ==
  /\ choice.name = "make_random_name"
  /\ json_loads(choice.arguments).ok
  /\ json_loads(choice.arguments).keys = {}

\* the lists of tool calls of one response: at most one call of a list fails
\* (run_agent stops at the first failing call and never reads the later ones)
CallLists ==
  { l \in SeqsUpTo(CallChoices, MaxToolCalls) :
      Cardinality({i \in 1..Len(l) : ~GoodCall(l[i])}) <= 1 }

ToolCall(id, choice) ==
  [id |-> id, function |-> [name |-> choice.name, arguments |-> choice.arguments]]

\* the n-th response of the run, built from the provider's choices
RECURSIVE WithIds(_, _)
WithIds(n, calls) ==
  IF calls = << >> THEN << >>
  ELSE Append(WithIds(n, SubSeq(calls, 1, Len(calls) - 1)),
              ToolCall(<<n, Len(calls)>>, calls[Len(calls)]))

AssistantMessage(n, content, calls) ==
  Message("assistant", content, WithIds(n, calls), NoId, "")

Responses(n) ==
  { AssistantMessage(n, c, << >>) : c \in AnswerContents }
    \cup { AssistantMessage(n, c, l) : c \in RequestContents, l \in CallLists \ {<< >>} }
    \cup { AssistantMessage(n, c, << ch >>) : c \in RequestTexts, ch \in CallChoices }

\* the responses to the reflection call: an answer, or a request of one call
ReflectResponses(n) ==
  { AssistantMessage(n, c, << >>) : c \in AnswerContents }
    \cup { AssistantMessage(n, c, << ch >>) :
              c \in RequestContents \cup RequestTexts, ch \in CallChoices }

\* the TOOLS list itself handed over: the callee works on the caller's object
deepcopy_alias(x) == [shared |-> TRUE, value |-> x]

\* copy.deepcopy: the callee gets an object of its own with an equal value
deepcopy(x) == [shared |-> FALSE, value |-> x]

\* what litellm.completion may leave in the tools structure it was given
\* ("LightLLM annoyingly mutates tools in place", line 98)
ProviderMutations(t) ==
  { [i \in DOMAIN t |-> [t[i] EXCEPT !.function.parameters = {"additionalProperties"}]],
    [i \in DOMAIN t |-> [t[i] EXCEPT !.type = "function_declaration",
                                     !.function.name = "makeRandomName"]] }

\* the module-level list after a call that was given arg and left it as left
ToolsAfterCall(arg, left) == IF arg.shared THEN left ELSE tools

\* a call that sends only the messages added after the seed messages
CompletionCall_tail(phase, history, tools_arg) ==
  [phase |-> phase, messages |-> SubSeq(history, 4, Len(history)),
   tools |-> tools_arg.value, tool_choice |-> "auto"]

\* litellm.completion(model, messages, tools=deepcopy(TOOLS), tool_choice="auto")
CompletionCall(phase, history, tools_arg) ==
  [phase |-> phase, messages |-> history, tools |-> tools_arg.value,
   tool_choice |-> "auto"]

\* the effect of one completion call on the module-level list: the provider
\* rewrites the structure it was given
HandTools(tools_arg) ==
  \E left \in ProviderMutations(tools_arg.value) :
    tools' = ToolsAfterCall(tools_arg, left)

\* the outputs a container run may produce
ContainerOutputs == {<<"1">>, <<"Traceback">>}

\* ------------------------------------------------------------------ Init
\* lines 76-94: the state when run_agent has built the seed messages
Init ==
  /\ model_supported \in BOOLEAN
  /\ max_callbacks \in -1..MaxCallbacks
  /\ reflect \in BOOLEAN
  /\ execute_code \in BOOLEAN
  /\ pc = "check_model"
  /\ messages = SeedMessages
  /\ response = NoResponse
  /\ callbacks = 0
  /\ idx = 0
  /\ message_content = NoneContent
  /\ code = << >>
  /\ printed = << >>
  /\ container_runs = << >>
  /\ err = NoError
  /\ completions = << >>
  /\ invoked = << >>
  /\ rounds = 0
  /\ sandbox_attempts = 0
  /\ tools = TOOLS
  /\ loop_exit = NoLoopExit

\* --------------------------------------------------------------- helpers
\* every name a provider may send counts as callable
possible_functions_any == FunctionNames

\* line 110-112
possible_functions ==
  { tools[i].function.name : i \in {j \in DOMAIN tools : tools[j].type = "function"} }

\* a loop without the cap: it runs as long as tools are requested
LoopCondition_uncapped(message, cb, maxcb) ==
  Len(message.tool_calls) > 0

\* the cap read as exclusive
LoopCondition_exclusive(message, cb, maxcb) ==
  Len(message.tool_calls) > 0 /\ cb < maxcb

\* line 106-108: the while condition
LoopCondition(message, cb, maxcb) ==
  Len(message.tool_calls) > 0 /\ cb <= maxcb

\* detection that looks for the opening delimiter only
DetectCode_open_only(exec, content) ==
  /\ exec
  /\ ~content.none
  /\ Contains(content.text, OPEN)

\* line 152-157: the if condition
DetectCode(exec, content) ==
  /\ exec
  /\ ~content.none
  /\ Contains(content.text, OPEN)
  /\ Contains(content.text, CLOSE)

\* line 158-160
ExtractCode(text) == Split1(Split1(text, OPEN)[2], CLOSE)[1]

\* a tool message that carries no id of the request it answers
ToolMessage_without_id(tool_call, function_name, function_response) ==
  Message("tool", Text(function_response), << >>, NoId, function_name)

\* lines 121-128: the message appended for a resolved tool call
ToolMessage(tool_call, function_name, function_response) ==
  Message("tool", Text(function_response), << >>, tool_call.id, function_name)

\* the answer appended to the history before the reflection prompt
ReflectHistory_with_answer(history, answer) ==
  Append(Append(history, answer), UserMessage(reflect_prompt(answer.content)))

\* lines 137-142: the history after the reflection prompt is appended
ReflectHistory(history, answer) ==
  Append(history, UserMessage(reflect_prompt(answer.content)))

\* an exception leaves run_agent: nothing else of it runs
Abort(e) == pc' = "error" /\ err' = e

\* --------------------------------------------------------------- actions
\* the capability check left out
CheckModel_unchecked ==
  /\ pc = "check_model"
  /\ pc' = "first_completion"
  /\ UNCHANGED << config, tool_state, sandbox_attempts, messages, response, callbacks, idx,
                  message_content, code, printed, container_runs, err,
                  completions, invoked, rounds, loop_exit >>

\* lines 95-97
CheckModel ==
  /\ pc = "check_model"
  /\ IF ~model_supported
     THEN Abort(Raise("ValueError",
                      "You must choose a model that supports function calling", ""))
     ELSE pc' = "first_completion" /\ err' = err
  /\ UNCHANGED << config, tool_state, sandbox_attempts, messages, response, callbacks, idx, message_content,
                  code, printed, container_runs, completions, invoked, rounds,
                  loop_exit >>

\* lines 99-105: the first completion call, which returns or raises
FirstCompletion ==
  /\ pc = "first_completion"
  /\ completions' = Append(completions, CompletionCall("initial", messages, deepcopy(tools)))
  /\ HandTools(deepcopy(tools))
  /\ \/ /\ \E r \in Responses(Len(completions) + 1) : response' = r
        /\ callbacks' = 0
        /\ pc' = "loop_test"
        /\ err' = err
     \/ /\ Abort(Raise("ProviderError", "", ""))
        /\ UNCHANGED << response, callbacks >>
  /\ UNCHANGED << config, sandbox_attempts, messages, idx, message_content, code, printed,
                  container_runs, invoked, rounds, loop_exit >>

\* a loop that appends the response before it tests it
LoopTest_append_first ==
  /\ pc = "loop_test"
  /\ messages' = Append(messages, response)
  /\ IF LoopCondition(response, callbacks, max_callbacks)
     THEN /\ idx' = 1
          /\ rounds' = rounds + 1
          /\ pc' = "tool_call"
          /\ loop_exit' = loop_exit
     ELSE /\ pc' = "reflect"
          /\ loop_exit' = [completions |-> Len(completions),
                           content |-> response.content,
                           requesting |-> Len(response.tool_calls) > 0,
                           reached |-> TRUE]
          /\ UNCHANGED << idx, rounds >>
  /\ UNCHANGED << config, tool_state, sandbox_attempts, response, callbacks,
                  message_content, code, printed, container_runs, err,
                  completions, invoked >>

\* lines 106-112: the loop test and, when it holds, the start of a round
LoopTest ==
  /\ pc = "loop_test"
  /\ IF LoopCondition(response, callbacks, max_callbacks)
     THEN /\ messages' = Append(messages, response)
          /\ idx' = 1
          /\ rounds' = rounds + 1
          /\ pc' = "tool_call"
          /\ loop_exit' = loop_exit
     ELSE /\ pc' = "reflect"
          /\ loop_exit' = [completions |-> Len(completions),
                           content |-> response.content,
                           requesting |-> Len(response.tool_calls) > 0,
                           reached |-> TRUE]
          /\ UNCHANGED << messages, idx, rounds >>
  /\ UNCHANGED << config, tool_state, sandbox_attempts, response, callbacks, message_content, code, printed,
                  container_runs, err, completions, invoked >>

\* a round that validates all its calls before it invokes the first
ToolCallStep_validate_first ==
  /\ pc = "tool_call"
  /\ idx <= Len(response.tool_calls)
  /\ LET calls == response.tool_calls
         tool_call == calls[idx]
         function_name == tool_call.function.name
         bad == { j \in 1..Len(calls) :
                   \/ calls[j].function.name \notin possible_functions
                   \/ ~json_loads(calls[j].function.arguments).ok
                   \/ ~AcceptsKwargs(calls[j].function.name,
                                     json_loads(calls[j].function.arguments).keys) }
     IN IF bad # {}
        THEN /\ Abort(Raise("ValueError", "invalid tool calls", ""))
             /\ UNCHANGED << messages, idx, invoked >>
        ELSE /\ \E function_response \in FakerNames :
                  messages' = Append(messages,
                     ToolMessage(tool_call, function_name, function_response))
             /\ invoked' = Append(invoked, [name |-> function_name, id |-> tool_call.id])
             /\ idx' = idx + 1
             /\ pc' = IF idx + 1 > Len(response.tool_calls) THEN "requery" ELSE "tool_call"
             /\ err' = err
  /\ UNCHANGED << config, tool_state, sandbox_attempts, response, callbacks,
                  message_content, code, printed, container_runs, completions,
                  rounds, loop_exit >>

\* lines 113-128: one iteration of the for loop over message.tool_calls
ToolCallStep ==
  /\ pc = "tool_call"
  /\ idx <= Len(response.tool_calls)
  /\ LET tool_call == response.tool_calls[idx]
         function_name == tool_call.function.name
         parsed == json_loads(tool_call.function.arguments)
     IN IF function_name \notin possible_functions
        THEN /\ Abort(Raise("ValueError",
                            "Requested to call unrecognized function", function_name))
             /\ UNCHANGED << messages, idx, invoked >>
        ELSE IF ~parsed.ok
        THEN /\ Abort(Raise("JSONDecodeError", "", ""))
             /\ UNCHANGED << messages, idx, invoked >>
        ELSE IF ~AcceptsKwargs(function_name, parsed.keys)
        THEN /\ Abort(Raise("TypeError", "unexpected keyword argument", function_name))
             /\ UNCHANGED << messages, idx, invoked >>
        ELSE /\ \E function_response \in FakerNames :
                  messages' = Append(messages,
                     ToolMessage(tool_call, function_name, function_response))
             /\ invoked' = Append(invoked, [name |-> function_name, id |-> tool_call.id])
             /\ idx' = idx + 1
             /\ pc' = IF idx + 1 > Len(response.tool_calls) THEN "requery" ELSE "tool_call"
             /\ err' = err
  /\ UNCHANGED << config, tool_state, sandbox_attempts, response, callbacks, message_content, code, printed,
                  container_runs, completions, rounds, loop_exit >>

\* lines 129-135: the completion call that ends a round
Requery ==
  /\ pc = "requery"
  /\ completions' = Append(completions, CompletionCall("round", messages, deepcopy(tools)))
  /\ HandTools(deepcopy(tools))
  /\ \/ /\ \E r \in Responses(Len(completions) + 1) : response' = r
        /\ callbacks' = callbacks + 1
        /\ pc' = "loop_test"
        /\ err' = err
     \/ /\ Abort(Raise("ProviderError", "", ""))
        /\ UNCHANGED << response, callbacks >>
  /\ UNCHANGED << config, sandbox_attempts, messages, idx, message_content, code, printed,
                  container_runs, invoked, rounds, loop_exit >>

\* a reflection round whose response goes back to the loop test
Reflect_resolving ==
  /\ pc = "reflect"
  /\ IF reflect
     THEN /\ messages' = ReflectHistory(messages, response)
          /\ completions' = Append(completions,
                                   CompletionCall("reflect", messages', deepcopy(tools)))
          /\ HandTools(deepcopy(tools))
          /\ \/ /\ \E r \in ReflectResponses(Len(completions) + 1) : response' = r
                /\ pc' = "loop_test"
                /\ err' = err
             \/ /\ Abort(Raise("ProviderError", "", ""))
                /\ response' = response
     ELSE /\ pc' = "print_response"
          /\ UNCHANGED << messages, completions, response, err, tool_state >>
  /\ UNCHANGED << config, sandbox_attempts, callbacks, idx, message_content, code,
                  printed, container_runs, invoked, rounds, loop_exit >>

\* lines 136-148: the optional reflection round
Reflect ==
  /\ pc = "reflect"
  /\ IF reflect
     THEN /\ messages' = ReflectHistory(messages, response)
          /\ completions' = Append(completions,
                                   CompletionCall("reflect", messages', deepcopy(tools)))
          /\ HandTools(deepcopy(tools))
          /\ \/ /\ \E r \in ReflectResponses(Len(completions) + 1) : response' = r
                /\ pc' = "print_response"
                /\ err' = err
             \/ /\ Abort(Raise("ProviderError", "", ""))
                /\ response' = response
     ELSE /\ pc' = "print_response"
          /\ UNCHANGED << messages, completions, response, err, tool_state >>
  /\ UNCHANGED << config, sandbox_attempts, callbacks, idx, message_content, code, printed,
                  container_runs, invoked, rounds, loop_exit >>

\* the answer printed only after the sandbox run: nothing is printed here
PrintResponse_deferred ==
  /\ pc = "print_response"
  /\ message_content' = response.content
  /\ pc' = "detect"
  /\ UNCHANGED << config, tool_state, sandbox_attempts, messages, response, callbacks, idx,
                  code, printed, container_runs, err, completions, invoked,
                  rounds, loop_exit >>

\* lines 149-151
PrintResponse ==
  /\ pc = "print_response"
  /\ message_content' = response.content
  /\ printed' = printed \o << <<">>> LLM Response:">>, Str(response.content) >>
  /\ pc' = "detect"
  /\ UNCHANGED << config, tool_state, sandbox_attempts, messages, response, callbacks, idx, code,
                  container_runs, err, completions, invoked, rounds, loop_exit >>

\* lines 152-160: detection and extraction of the code block
Detect ==
  /\ pc = "detect"
  /\ IF DetectCode(execute_code, message_content)
     THEN /\ code' = ExtractCode(message_content.text)
          /\ sandbox_attempts' = sandbox_attempts + 1
          /\ pc' = "run_container"
     ELSE /\ pc' = "done"
          /\ UNCHANGED << code, sandbox_attempts >>
  /\ UNCHANGED << config, tool_state, messages, response, callbacks, idx, message_content,
                  printed, container_runs, err, completions, invoked, rounds,
                  loop_exit >>

\* lines 161-171: docker.from_env() and client.containers.run(...).decode()
RunContainer ==
  /\ pc = "run_container"
  /\ \/ /\ Abort(Raise("DockerException", "from_env", ""))
        /\ UNCHANGED << container_runs >>
     \/ /\ container_runs' = Append(container_runs,
              [image |-> "python:3.10-slim", command |-> <<"python", "-c", code>>,
               remove |-> TRUE, network_disabled |-> TRUE, mem_limit |-> "128m",
               cpu_quota |-> 50000])
        /\ \/ Abort(Raise("DockerException", "run", ""))
           \/ pc' = "print_output" /\ err' = err
  /\ UNCHANGED << config, tool_state, sandbox_attempts, messages, response, callbacks, idx, message_content,
                  code, printed, completions, invoked, rounds, loop_exit >>

\* the output section printed before the container is run
PrintOutput_early ==
  /\ pc = "run_container"
  /\ \E output \in ContainerOutputs :
       printed' = printed \o << <<">>> Code execution output:">>, output >>
  /\ pc' = "done"
  /\ UNCHANGED << config, tool_state, sandbox_attempts, messages, response,
                  callbacks, idx, message_content, code, container_runs, err,
                  completions, invoked, rounds, loop_exit >>

\* lines 172-173
PrintOutput ==
  /\ pc = "print_output"
  /\ \E output \in ContainerOutputs :
       printed' = printed \o << <<">>> Code execution output:">>, output >>
  /\ pc' = "done"
  /\ UNCHANGED << config, tool_state, sandbox_attempts, messages, response, callbacks, idx, message_content,
                  code, container_runs, err, completions, invoked, rounds,
                  loop_exit >>

Next ==
  \/ CheckModel
  \/ FirstCompletion
  \/ LoopTest
  \/ ToolCallStep
  \/ Requery
  \/ Reflect
  \/ PrintResponse
  \/ Detect
  \/ RunContainer
  \/ PrintOutput

Spec == Init /\ [][Next]_vars

\* run_agent is one sequential function: as long as every provider, tool
\* and container call returns, it takes its next step
FairSpec == Spec /\ WF_vars(Next)

\* ------------------------------------------------- vocabulary of the claims
\* the names of the Tool Descriptor set
DescriptorNames == { TOOLS[i].function.name : i \in DOMAIN TOOLS }

\* argument strings that are valid JSON
ValidJSON(s) == s \in {"{}", "{\"x\": 1}"}

\* argument strings that are the JSON object without members
EmptyJSONObject(s) == s = "{}"

UnsupportedModelError ==
  Raise("ValueError", "You must choose a model that supports function calling", "")

UnknownToolError(name) ==
  Raise("ValueError", "Requested to call unrecognized function", name)

\* positions of the assistant messages of the history
AssistantPositions == { k \in 1..Len(messages) : messages[k].role = "assistant" }

\* the loop over the calls of message k is still before call i
Pending(k, i) == pc = "tool_call" /\ response = messages[k] /\ idx <= i

\* calls 1..i-1 of message k are ones the loop resolves without raising
ReachedByLoop(k, i) ==
  \A j \in 1..(i - 1) :
    LET f == messages[k].tool_calls[j].function
    IN f.name \in DescriptorNames /\ EmptyJSONObject(f.arguments)

InvokedIds == { invoked[n].id : n \in 1..Len(invoked) }
ToolMessageIds ==
  { messages[n].tool_call_id : n \in {m \in 1..Len(messages) : messages[m].role = "tool"} }

LLMSection(content) == << <<">>> LLM Response:">>, Str(content) >>

\* the output starts with the LLM Response section of content
StartsWithLLMSection(content) ==
  Len(printed) >= 2 /\ SubSeq(printed, 1, 2) = LLMSection(content)

\* ------------------------------------------------------------------- C1
\* C1: when supports_function_calling(model) is false, the run can only end
\* with the unsupported-model error, and no completion call is issued, no
\* tool is invoked, nothing is printed and no sandbox run is started.
C1_UnsupportedModelFailsFirst ==
  ~model_supported =>
    /\ pc \in {"check_model", "error"}
    /\ (pc = "error" => err = UnsupportedModelError)
    /\ completions = << >>
    /\ invoked = << >>
    /\ printed = << >>
    /\ sandbox_attempts = 0
    /\ container_runs = << >>

C1_Witness == ~model_supported /\ pc = "error" /\ err = UnsupportedModelError

C3_CallbacksNeverExceedMax == max_callbacks >= 0 => callbacks <= max_callbacks

\* ------------------------------------------------------------------- C4
\* every tool call the provider has requested so far satisfies Valid
AllRequestsSatisfy(Valid(_)) ==
  \A k \in AssistantPositions :
    \A i \in 1..Len(messages[k].tool_calls) :
      LET f == messages[k].tool_calls[i].function
      IN f.name \in DescriptorNames /\ Valid(f.arguments)

\* the errors the tool-call loop itself can raise
LoopErrors == {"ValueError", "JSONDecodeError", "TypeError"}

\* the loop has ended on a response without tool calls, after k requests
EndedOnAnswer == loop_exit.reached /\ Len(response.tool_calls) = 0

C4_Statement(Valid(_)) ==
  (model_supported /\ ~reflect /\ AllRequestsSatisfy(Valid)) =>
    /\ err.type \notin LoopErrors
    /\ (EndedOnAnswer =>
          /\ rounds = Cardinality(AssistantPositions)
          /\ rounds <= max_callbacks + 1
          /\ loop_exit.content = response.content
          /\ (pc \in {"detect", "run_container", "print_output", "done"} =>
                /\ message_content = response.content
                /\ StartsWithLLMSection(response.content)))

\* C4 as stated: with reflect = false, when the provider answers k tool-call
\* responses (registered names, arguments valid JSON) and then a response
\* without tool calls, the loop ends without error after exactly k rounds and
\* the final text is the content of that response.
C4_ValidJSONRunsToAnswer == C4_Statement(ValidJSON)

\* C4 as amended: the same, for requests whose arguments are the JSON object
\* without members, which is what the registered tool accepts.
C4_EmptyObjectRunsToAnswer == C4_Statement(EmptyJSONObject)

C4_Witness ==
  /\ ~reflect
  /\ pc = "done"
  /\ max_callbacks = 1
  /\ rounds = 2
  /\ Len(response.tool_calls) = 0
  /\ AllRequestsSatisfy(EmptyJSONObject)
  /\ printed = LLMSection(response.content)

\* ------------------------------------------------------------------- C5
\* C5: when the loop comes to a tool call that names a function outside the
\* Tool Descriptor set, the run fails with the unknown-tool error naming that
\* function; no completion call follows, the function is not invoked, nothing
\* is printed and no sandbox run starts.
C5_UnknownToolIsFatal ==
  /\ \A k \in AssistantPositions :
       \A i \in 1..Len(messages[k].tool_calls) :
         LET call == messages[k].tool_calls[i]
         IN (call.function.name \notin DescriptorNames /\ ReachedByLoop(k, i)) =>
              \/ Pending(k, i)
              \/ /\ pc = "error"
                 /\ err = UnknownToolError(call.function.name)
                 /\ k = Len(messages) - (i - 1)
                 /\ Len(completions) = rounds
                 /\ call.id \notin InvokedIds
                 /\ printed = << >>
                 /\ sandbox_attempts = 0
                 /\ container_runs = << >>
  /\ \A n \in 1..Len(invoked) : invoked[n].name \in DescriptorNames

C5_Witness ==
  /\ pc = "error"
  /\ \E name \in FunctionNames \ DescriptorNames : err = UnknownToolError(name)
  /\ Len(invoked) > 0

\* ------------------------------------------------------------------- C6
\* the reflection step is behind
PastReflect == loop_exit.reached /\ pc # "reflect"

\* C6: with reflect = true exactly one completion call follows the exit of
\* the loop, and the history it sends ends with a user message whose text
\* contains the content of the response that ended the loop; with
\* reflect = false no completion call follows the exit of the loop.
C6_OneReflectionCall ==
  /\ (loop_exit.reached /\ pc = "reflect") => Len(completions) = loop_exit.completions
  /\ (PastReflect /\ ~reflect) => Len(completions) = loop_exit.completions
  /\ (PastReflect /\ reflect) =>
       /\ Len(completions) = loop_exit.completions + 1
       /\ LET sent == completions[Len(completions)].messages
          IN /\ sent = messages
             /\ sent[Len(sent)].role = "user"
             /\ ~sent[Len(sent)].content.none
             /\ IsSubstring(Str(loop_exit.content), sent[Len(sent)].content.text)

C6_Witness ==
  /\ reflect
  /\ pc = "done"
  /\ rounds > 0
  /\ ~loop_exit.content.none
  /\ Len(completions) = loop_exit.completions + 1

\* ------------------------------------------------------------------- C7
\* the detection step is behind
PastDetect ==
  \/ pc \in {"run_container", "print_output", "done"}
  \/ pc = "error" /\ err.type = "DockerException"

\* C7: a sandbox run is attempted if and only if the run came to the final
\* message without error, execute_code is true, the final text is not None
\* and it contains both delimiters; with execute_code = false none is.
C7_SandboxIffDetected ==
  /\ ~PastDetect => sandbox_attempts = 0 /\ container_runs = << >>
  /\ PastDetect =>
       /\ Len(printed) >= 2
       /\ message_content = response.content
       /\ (sandbox_attempts = 1) <=>
            /\ execute_code
            /\ ~message_content.none
            /\ Contains(message_content.text, OPEN)
            /\ Contains(message_content.text, CLOSE)
       /\ sandbox_attempts \in {0, 1}
       /\ (pc # "done" => sandbox_attempts = 1)
       /\ Len(container_runs) <= sandbox_attempts
  /\ ~execute_code => sandbox_attempts = 0 /\ container_runs = << >>

C7_Witness ==
  /\ pc = "done"
  /\ ~execute_code
  /\ ~message_content.none
  /\ Contains(message_content.text, OPEN)
  /\ Contains(message_content.text, CLOSE)
  /\ sandbox_attempts = 0

\* ------------------------------------------------------------------- C8
\* C8: whenever a sandbox run is triggered, the code given to the container
\* is the text strictly between the first opening delimiter and the first
\* closing delimiter after it, for every final text that passes detection.
C8_CodeBetweenFirstDelimiters ==
  \A n \in 1..Len(container_runs) :
    LET text == message_content.text
        i == FirstIndex(text, OPEN)
    IN \E j \in (i + 1)..Len(text) :
         /\ text[j] = CLOSE
         /\ \A m \in (i + 1)..(j - 1) : text[m] # CLOSE
         /\ container_runs[n].command = <<"python", "-c", SubSeq(text, i + 1, j - 1)>>

\* ------------------------------------------------------------------- C9
\* C9 as stated: either the run completes and output is printed, or it
\* aborts with an error and no output section has been printed.
C9_NoOutputBeforeAbort ==
  /\ pc = "error" => printed = << >>
  /\ pc = "done" => Len(printed) >= 2

\* C9 as amended: a run that aborts before the final message is obtained has
\* printed nothing; a run whose sandbox run fails has printed the LLM Response
\* section and not the Code execution output section; a run that completes
\* has printed the LLM Response section, and the Code execution output
\* section exactly when a container run returned.
C9_OutputAtAbort ==
  /\ (pc = "error" /\ err.type # "DockerException") => printed = << >>
  /\ (pc = "error" /\ err.type = "DockerException") =>
        printed = LLMSection(message_content)
  /\ pc = "done" =>
        /\ StartsWithLLMSection(message_content)
        /\ IF container_runs = << >>
           THEN Len(printed) = 2
           ELSE Len(printed) = 4 /\ printed[3] = <<">>> Code execution output:">>

C9_Witness ==
  /\ pc = "error"
  /\ err.type = "DockerException"
  /\ Len(container_runs) = 1
  /\ printed = LLMSection(message_content)

\* ------------------------------------------------------------------ C10
\* C10: when the loop comes to a tool call of a registered name whose
\* arguments do not parse as JSON, the run fails with the parse error; the
\* tool is not invoked for that request, no tool message is appended for it,
\* no completion call follows and nothing is printed.
C10_MalformedArgumentsAreFatal ==
  \A k \in AssistantPositions :
    \A i \in 1..Len(messages[k].tool_calls) :
      LET call == messages[k].tool_calls[i]
      IN (/\ call.function.name \in DescriptorNames
          /\ ~ValidJSON(call.function.arguments)
          /\ ReachedByLoop(k, i)) =>
           \/ Pending(k, i)
           \/ /\ pc = "error"
              /\ err.type = "JSONDecodeError"
              /\ call.id \notin InvokedIds
              /\ call.id \notin ToolMessageIds
              /\ Len(invoked) = Cardinality(ToolMessageIds)
              /\ Len(completions) = rounds
              /\ printed = << >>
              /\ sandbox_attempts = 0

C10_Witness ==
  /\ pc = "error"
  /\ err.type = "JSONDecodeError"
  /\ Len(invoked) > 0

\* ------------------------------------------------------------------ C11
\* message t of history h answers request j of the assistant message at k
Answers(h, t, k, j) ==
  /\ h[t].role = "tool"
  /\ h[t].tool_call_id = h[k].tool_calls[j].id
  /\ h[t].name = h[k].tool_calls[j].function.name

\* the assistant message at k of h is followed by one tool message for each
\* of its requests, in their order, and by no further tool message
CompleteRound(h, k) ==
  LET n == Len(h[k].tool_calls)
  IN /\ k + n <= Len(h)
     /\ \A j \in 1..n : Answers(h, k + j, k, j)
     /\ (k + n < Len(h) => h[k + n + 1].role # "tool")

\* C11: a completed round appends the requesting assistant message and then
\* one tool message per request, in the order of the requests, each with the
\* id and the function name of its request; every tool message of a history
\* follows an assistant message with a request of its id; the re-query is
\* issued only when all tool messages of the round are appended.
C11_RoundAppendsRequestsInOrder ==
  /\ \A k \in AssistantPositions :
       \/ CompleteRound(messages, k)
       \/ /\ pc \in {"tool_call", "error"}
          /\ response = messages[k]
          /\ Len(messages) = k + (idx - 1)
          /\ \A j \in 1..(idx - 1) : Answers(messages, k + j, k, j)
  /\ \A t \in 1..Len(messages) :
       messages[t].role = "tool" =>
         \E k \in AssistantPositions :
           /\ k < t
           /\ \E j \in 1..Len(messages[k].tool_calls) :
                messages[k].tool_calls[j].id = messages[t].tool_call_id
  /\ \A c \in 2..Len(completions) :
       completions[c].phase = "round" =>
         LET before == completions[c - 1].messages
             sent == completions[c].messages
             k == Len(before) + 1
         IN /\ Len(sent) > Len(before)
            /\ SubSeq(sent, 1, Len(before)) = before
            /\ sent[k].role = "assistant"
            /\ Len(sent[k].tool_calls) > 0
            /\ CompleteRound(sent, k)
            /\ Len(sent) = k + Len(sent[k].tool_calls)

C11_Witness ==
  /\ pc = "loop_test"
  /\ Len(completions) = 2
  /\ Len(messages) = 6
  /\ messages[4].role = "assistant"
  /\ Len(messages[4].tool_calls) = 2
  /\ messages[5].tool_call_id = messages[4].tool_calls[1].id
  /\ messages[6].tool_call_id = messages[4].tool_calls[2].id

\* ------------------------------------------------------------------ C12
\* the final message has been printed
PastPrint ==
  \/ pc \in {"detect", "run_container", "print_output", "done"}
  \/ pc = "error" /\ err.type = "DockerException"

\* C12: the tool calls of the reflection response are never resolved: once
\* the reflection call is issued no tool is invoked and no completion call
\* is made, and the final text is the content of the reflection response.
C12_ReflectionCallsNotResolved ==
  (PastReflect /\ reflect) =>
    /\ Len(completions) = loop_exit.completions + 1
    /\ completions[Len(completions)].phase = "reflect"
    /\ rounds = callbacks
    /\ \A n \in 1..Len(invoked) : invoked[n].id[1] < loop_exit.completions
    /\ Len(invoked) = Cardinality(ToolMessageIds)
    /\ messages = completions[Len(completions)].messages
    /\ (err.type # "ProviderError" =>
          \A j \in 1..Len(response.tool_calls) :
            /\ response.tool_calls[j].id[1] = Len(completions)
            /\ response.tool_calls[j].id \notin InvokedIds)
    /\ (PastPrint =>
          /\ message_content = response.content
          /\ StartsWithLLMSection(response.content))

C12_Witness ==
  /\ reflect
  /\ pc = "done"
  /\ Len(response.tool_calls) = 1
  /\ response.tool_calls[1].id = <<Len(completions), 1>>
  /\ response.tool_calls[1].function.name \in DescriptorNames
  /\ message_content = response.content
  /\ Len(invoked) = 0

\* ------------------------------------------------------------------ C13
IsPrefix(a, b) == Len(a) <= Len(b) /\ SubSeq(b, 1, Len(a)) = a

\* the histories sent so far start with the seed messages and each extends
\* the one sent before it; the history kept extends the one sent last
HistoriesExtend ==
  /\ IsPrefix(SeedMessages, messages)
  /\ \A c \in 1..Len(completions) :
       /\ IsPrefix(SeedMessages, completions[c].messages)
       /\ IsPrefix(completions[c].messages, messages)
       /\ (c > 1 => IsPrefix(completions[c - 1].messages, completions[c].messages))

\* C13: the history is append-only and replayed in full: the list sent in
\* every completion call has the list sent in the previous call as a prefix
\* and the three seed messages as its first three elements, and no step
\* removes or reorders a message.
C13_HistoryAppendOnly ==
  /\ []HistoriesExtend
  /\ [][IsPrefix(messages, messages')]_vars
  /\ [][completions' # completions =>
          /\ Len(completions') = Len(completions) + 1
          /\ completions'[Len(completions')].messages = messages']_vars

C13_Witness ==
  /\ Len(completions) = 3
  /\ completions[3].phase = "reflect"
  /\ Len(completions[1].messages) = 3
  /\ Len(completions[2].messages) = 6
  /\ Len(completions[3].messages) = 7

\* ------------------------------------------------------------------ C14
\* the phases of the completion calls issued so far
CallPhases == { completions[c].phase : c \in 1..Len(completions) }

\* C14: the module-level Tool Descriptor list is unchanged by every
\* completion call although the provider rewrites the structure it is given:
\* the initial, the per-round and the reflection call each get a copy, so
\* every call sees the descriptors as constructed and tool names are
\* resolved against the names as constructed.
C14_ToolsNeverMutated ==
  /\ tools = TOOLS
  /\ \A c \in 1..Len(completions) : completions[c].tools = TOOLS
  /\ possible_functions = DescriptorNames

C14_Witness ==
  /\ pc = "done"
  /\ CallPhases = {"initial", "round", "reflect"}
  /\ Len(completions) = 3
  /\ completions[3].tools = TOOLS
  /\ Len(invoked) > 0
  /\ tools = TOOLS

\* ------------------------------------------------------------------ C15
\* the loop was left although its last response still requested tools
CapExceeded == loop_exit.reached /\ loop_exit.requesting

\* the requests of the response that ended the loop (the ids of response n
\* are the pairs <<n, j>>) were not taken up
LastRequestsDropped ==
  LET last == loop_exit.completions
  IN /\ callbacks = max_callbacks + 1
     /\ rounds = max_callbacks + 1
     /\ \A id \in InvokedIds \cup ToolMessageIds : id[1] # last
     /\ \A k \in AssistantPositions :
          \A j \in 1..Len(messages[k].tool_calls) :
            messages[k].tool_calls[j].id[1] # last

\* C15 as stated: when the cap is exceeded while the provider still requests
\* tools, the loop exits, the last requested calls are never invoked, their
\* assistant message is never appended, and the final text is the content of
\* that message.
C15_CapExitTextIsFinal ==
  CapExceeded =>
    /\ LastRequestsDropped
    /\ (PastPrint => message_content = loop_exit.content)

\* C15 as amended: the same, with the final text being the content of that
\* message when reflect is false, and the content of the reflection response
\* when reflect is true.
C15_CapExitTextIsFinalUnlessReflect ==
  CapExceeded =>
    /\ LastRequestsDropped
    /\ (PastPrint /\ ~reflect => message_content = loop_exit.content)
    /\ (PastPrint /\ reflect =>
          /\ message_content = response.content
          /\ Len(completions) = loop_exit.completions + 1)

C15_Witness ==
  /\ CapExceeded
  /\ ~reflect
  /\ pc = "done"
  /\ max_callbacks = 1
  /\ rounds = 2
  /\ loop_exit.content = NoneContent
  /\ message_content = NoneContent
  /\ Len(invoked) = Cardinality(ToolMessageIds)

\* ------------------------------------------------------------------ C16
\* what is on the terminal and what the container was asked, in every state
OutputInOrder ==
  /\ sandbox_attempts <= 1
  /\ Len(container_runs) <= sandbox_attempts
  /\ Len(printed) \in {0, 2, 4}
  /\ (Len(printed) >= 2 => printed[1] = <<">>> LLM Response:">>)
  /\ (sandbox_attempts = 1 => Len(printed) >= 2)
  /\ (Len(printed) = 4 =>
        /\ printed[3] = <<">>> Code execution output:">>
        /\ Len(container_runs) = 1
        /\ pc = "done"
        /\ err = NoError)
  /\ (loop_exit.reached => pc \notin {"loop_test", "tool_call", "requery"})

\* C16: the phases are strictly ordered and the sandbox runs at most once: no
\* tool is invoked after the loop has exited, no completion call is issued
\* once the final text is printed or a sandbox run has started, and the Code
\* execution output section is printed only after the LLM Response section
\* and after the single container run has returned.
C16_PhasesInOrder ==
  /\ []OutputInOrder
  /\ [][loop_exit.reached => invoked' = invoked]_vars
  /\ [][(printed # << >> \/ sandbox_attempts > 0) => completions' = completions]_vars
  /\ [][container_runs # << >> => container_runs' = container_runs]_vars
  /\ [][Len(printed') = 4 /\ Len(printed) # 4 =>
          /\ Len(printed) = 2
          /\ Len(container_runs) = 1
          /\ pc = "print_output"]_vars

C16_Witness ==
  /\ pc = "done"
  /\ reflect
  /\ Len(invoked) > 0
  /\ Len(printed) = 4
  /\ Len(container_runs) = 1
  /\ sandbox_attempts = 1

\* ------------------------------------------------------------------ C17
Max(a, b) == IF a >= b THEN a ELSE b

\* the most completion calls one run may issue
CompletionBudget ==
  1 + Max(0, max_callbacks + 1) + (IF reflect THEN 1 ELSE 0)

Terminated == pc \in {"done", "error"}

\* C17: for every max_callbacks, reflect and execute_code and every provider
\* behaviour, when every provider, tool and container call returns the run
\* terminates, and it issues at most
\* 1 + max(0, max_callbacks + 1) + (1 if reflect else 0) completion calls.
C17_TerminatesWithinBudget ==
  /\ <>Terminated
  /\ [](Len(completions) <= CompletionBudget)

C17_Witness ==
  /\ pc = "done"
  /\ reflect
  /\ max_callbacks = 1
  /\ Len(completions) = 4
  /\ Len(completions) = CompletionBudget

\* ------------------------------------------------------------------ C18
\* the assistant messages of history h all request tools, and none of them
\* is the response that ended the loop
OnlyResolvedRequests(h) ==
  \A k \in 1..Len(h) :
    h[k].role = "assistant" =>
      /\ Len(h[k].tool_calls) > 0
      /\ (loop_exit.reached =>
            \A j \in 1..Len(h[k].tool_calls) :
              h[k].tool_calls[j].id[1] < loop_exit.completions)

\* C18: every assistant message of the history carries a tool call: the
\* response that ends the loop is never appended, so the history of the
\* reflection call holds the prior answer only as text inside its last user
\* message, which follows the last tool message, or the user prompt when no
\* round ran.
C18_AnswerNeverInHistory ==
  /\ OnlyResolvedRequests(messages)
  /\ Cardinality(AssistantPositions) = rounds
  /\ \A c \in 1..Len(completions) :
       completions[c].phase = "reflect" =>
         LET sent == completions[c].messages
             n == Len(sent)
         IN /\ OnlyResolvedRequests(sent)
            /\ n >= 4
            /\ sent[n].role = "user"
            /\ IsSubstring(Str(loop_exit.content), sent[n].content.text)
            /\ IF rounds = 0
               THEN n = 4 /\ sent[n - 1] = SeedMessages[3]
               ELSE sent[n - 1].role = "tool"

C18_Witness ==
  /\ reflect
  /\ pc = "done"
  /\ rounds = 1
  /\ ~loop_exit.requesting
  /\ ~loop_exit.content.none
  /\ Len(completions) = 3
  /\ messages[Len(messages) - 1].role = "tool"
  /\ messages[Len(messages)].role = "user"

\* ------------------------------------------------------------------ C19
\* a call the loop cannot resolve: an unregistered name, arguments that do
\* not parse, or arguments the function does not take
FailsInLoop(f) ==
  \/ f.name \notin DescriptorNames
  \/ ~ValidJSON(f.arguments)
  \/ ~EmptyJSONObject(f.arguments)

\* the run was ended by a tool call of a round
FailedInRound == pc = "error" /\ err.type \in LoopErrors /\ rounds > 0

\* C19: a failing tool call does not undo its round: when call i of an
\* assistant message fails, the tools of calls 1..i-1 have been invoked and
\* their tool messages stand in the history after the assistant message,
\* and calls i+1.. are never invoked.
C19_FailureKeepsEarlierCalls ==
  FailedInRound =>
    LET calls == response.tool_calls
        k == Len(messages) - (idx - 1)
    IN /\ idx \in 1..Len(calls)
       /\ FailsInLoop(calls[idx].function)
       /\ k \in AssistantPositions
       /\ messages[k] = response
       /\ \A j \in 1..(idx - 1) :
            /\ ~FailsInLoop(calls[j].function)
            /\ calls[j].id \in InvokedIds
            /\ Answers(messages, k + j, k, j)
       /\ \A j \in idx..Len(calls) :
            /\ calls[j].id \notin InvokedIds
            /\ calls[j].id \notin ToolMessageIds
       /\ Len(completions) = rounds

C19_Witness ==
  /\ FailedInRound
  /\ idx = 2
  /\ Len(response.tool_calls) = 2
  /\ err.type = "JSONDecodeError"
  /\ response.tool_calls[1].id \in InvokedIds
  /\ messages[Len(messages)].role = "tool"
  /\ messages[Len(messages)].tool_call_id = response.tool_calls[1].id

====
